---------------------------- MODULE Spec2Model ----------------------------
(***************************************************************************)
(* A model of the stonks price updater: the UpdateScheduler                *)
(* (scheduler.py), the StockDataFetcher (stock_fetcher.py) and the main    *)
(* loop of StockDataApp (main.py).                                         *)
(*                                                                         *)
(* Time.  A datetime is the number of clock ticks since 00:00:00 of day 0. *)
(* One second holds SubPerSec ticks, so a tick stands for the datetime's   *)
(* microsecond field at a coarser resolution.  A timedelta is a (signed)   *)
(* number of ticks.                                                        *)
(*                                                                         *)
(* Configuration.  config.py is imported by every module and fixes         *)
(* MARKET_OPEN_HOUR, MARKET_CLOSE_HOUR, UPDATE_INTERVAL_MINUTES,           *)
(* MAX_RETRIES and SKIP_TICKERS for the life of the process.  They are     *)
(* variables that Init draws from a set of configurations and that no      *)
(* action changes.                                                         *)
(***************************************************************************)
EXTENDS Integers, Sequences, FiniteSets, TLC

VARIABLES
    MARKET_OPEN_HOUR,         \* config: first hour of the market window
    MARKET_CLOSE_HOUR,        \* config: first hour after the market window
    UPDATE_INTERVAL_MINUTES,  \* config: cadence inside the window
    MAX_RETRIES,              \* config: attempts per ticker
    SKIP_TICKERS,             \* config: tickers the filter drops
    now,                      \* the wall clock, what datetime.now() returns
    last_update,              \* UpdateScheduler.last_update
    ret,                      \* the last scheduler call and what it returned
    record,                   \* the quote record handed to the resolver
    resolved,                 \* what the resolver returned last
    tickers,                  \* get_multiple_prices: the list it was given
    idx,                      \* get_multiple_prices: position in tickers
    results,                  \* get_multiple_prices: the dict being built
    fpc,                      \* where the fetcher is
    symbol,                   \* get_ticker_price: the normalised ticker
    attempt,                  \* get_ticker_price: the loop variable
    lookups,                  \* lookups made by the current call
    failed,                   \* attempts of the current call that failed
    pauses,                   \* retry delays slept by the current call
    last,                     \* outcome of the latest attempt
    fret,                     \* what get_ticker_price returned
    running,                  \* StockDataApp.running
    pc,                       \* where run() is
    wake,                     \* when the time.sleep of the scheduler ends
    cycle,                    \* what the last perform_update did
    cycles,                   \* update cycles run so far
    sheet,                    \* the ticker row and the collaborators' answers
    flow                      \* what a cycle computed from them, step by step

(***************************************************************************)
(* Bounds of the model.                                                    *)
(***************************************************************************)
\* Clock ticks per second: the resolution kept of the microsecond field.
SubPerSec == 2

\* self.last_update = None
NULL == -1

(***************************************************************************)
(* datetime and timedelta                                                  *)
(***************************************************************************)
TicksPerMinute == 60 * SubPerSec
TicksPerHour == 60 * TicksPerMinute
TicksPerDay == 24 * TicksPerHour

\* datetime(day, hour, minute, second, microsecond)
MakeTime(d, h, m, s, u) == (((d * 24 + h) * 60 + m) * 60 + s) * SubPerSec + u

Day(t) == t \div TicksPerDay
\* current_time.hour
Hour(t) == (t \div TicksPerHour) % 24
\* current_time.minute
Minute(t) == (t \div TicksPerMinute) % 60

\* t.replace(hour=h, minute=0, second=0, microsecond=0)
ReplaceHour(t, h) == MakeTime(Day(t), h, 0, 0, 0)
\* t.replace(minute=m, second=0, microsecond=0)
ReplaceMinute(t, m) == MakeTime(Day(t), Hour(t), m, 0, 0)

\* timedelta(days=n), timedelta(hours=n), timedelta(minutes=n)
Days(n) == n * TicksPerDay
Hours(n) == n * TicksPerHour
Minutes(n) == n * TicksPerMinute

\* int(delta.total_seconds()): int() truncates toward zero
IntTotalSeconds(delta) ==
    IF delta >= 0 THEN delta \div SubPerSec ELSE -((-delta) \div SubPerSec)

\* max(0, n)
Max0(n) == IF n > 0 THEN n ELSE 0

(***************************************************************************)
(* UpdateScheduler (scheduler.py)                                          *)
(***************************************************************************)
is_outside_market_hours(current_time) ==
    LET hour == Hour(current_time)
    IN  hour < MARKET_OPEN_HOUR \/ hour >= MARKET_CLOSE_HOUR

calculate_wait_until_market_open(current_time) ==
    LET hour == Hour(current_time)
        target_time ==
            IF hour < MARKET_OPEN_HOUR
            THEN ReplaceHour(current_time, MARKET_OPEN_HOUR)
            ELSE ReplaceHour(current_time + Days(1), MARKET_OPEN_HOUR)
        wait_seconds == IntTotalSeconds(target_time - current_time)
    IN  Max0(wait_seconds)

\* the interval wait rounding the minute up to the cadence, so that a minute
\* on a boundary is its own target
calculate_wait_until_next_interval_ceil(current_time) ==
    LET minutes_past_hour == Minute(current_time)
        next_interval ==
            ((minutes_past_hour + UPDATE_INTERVAL_MINUTES - 1)
                \div UPDATE_INTERVAL_MINUTES) * UPDATE_INTERVAL_MINUTES
        target_time ==
            IF next_interval >= 60
            THEN ReplaceMinute(current_time + Hours(1), 0)
            ELSE ReplaceMinute(current_time, next_interval)
    IN  Max0(IntTotalSeconds(target_time - current_time))

calculate_wait_until_next_interval(current_time) ==
    LET minutes_past_hour == Minute(current_time)
        next_interval ==
            ((minutes_past_hour \div UPDATE_INTERVAL_MINUTES) + 1)
                * UPDATE_INTERVAL_MINUTES
        target_time ==
            IF next_interval >= 60
            THEN ReplaceMinute(current_time + Hours(1), 0)
            ELSE ReplaceMinute(current_time, next_interval)
        wait_seconds == IntTotalSeconds(target_time - current_time)
    IN  Max0(wait_seconds)

\* should_update with > for >= in the interval test
should_update_strict(force) ==
    IF force THEN TRUE
    ELSE IF is_outside_market_hours(now) THEN FALSE
    ELSE IF last_update = NULL THEN TRUE
    ELSE now - last_update > Minutes(UPDATE_INTERVAL_MINUTES)

\* should_update without the test of the market hours
should_update_any_hour(force) ==
    IF force THEN TRUE
    ELSE IF last_update = NULL THEN TRUE
    ELSE now - last_update >= Minutes(UPDATE_INTERVAL_MINUTES)

\* should_update without the test of the time since the last update
should_update_ignores_last(force) ==
    IF force THEN TRUE
    ELSE ~is_outside_market_hours(now)

\* should_update(force), reading the clock and self.last_update
should_update(force) ==
    IF force THEN TRUE
    ELSE LET current_time == now
         IN  IF is_outside_market_hours(current_time) THEN FALSE
             ELSE IF last_update = NULL THEN TRUE
             ELSE LET time_since_last == current_time - last_update
                      min_interval == Minutes(UPDATE_INTERVAL_MINUTES)
                  IN  time_since_last >= min_interval

\* the seconds wait_until_next_update decides to wait at current_time
wait_seconds_at(current_time) ==
    IF is_outside_market_hours(current_time)
    THEN calculate_wait_until_market_open(current_time)
    ELSE calculate_wait_until_next_interval(current_time)

\* get_next_update_time taking today's opening hour after the close as well
get_next_update_time_same_day(current_time) ==
    IF is_outside_market_hours(current_time)
    THEN ReplaceHour(current_time, MARKET_OPEN_HOUR)
    ELSE LET minutes_past_hour == Minute(current_time)
             next_interval ==
                 ((minutes_past_hour \div UPDATE_INTERVAL_MINUTES) + 1)
                     * UPDATE_INTERVAL_MINUTES
         IN  IF next_interval >= 60
             THEN ReplaceMinute(current_time + Hours(1), 0)
             ELSE ReplaceMinute(current_time, next_interval)

\* get_next_update_time, reading the clock as current_time
get_next_update_time(current_time) ==
    IF is_outside_market_hours(current_time)
    THEN IF Hour(current_time) < MARKET_OPEN_HOUR
         THEN ReplaceHour(current_time, MARKET_OPEN_HOUR)
         ELSE LET tomorrow == current_time + Days(1)
              IN  ReplaceHour(tomorrow, MARKET_OPEN_HOUR)
    ELSE LET minutes_past_hour == Minute(current_time)
             next_interval ==
                 ((minutes_past_hour \div UPDATE_INTERVAL_MINUTES) + 1)
                     * UPDATE_INTERVAL_MINUTES
         IN  IF next_interval >= 60
             THEN ReplaceMinute(current_time + Hours(1), 0)
             ELSE ReplaceMinute(current_time, next_interval)

(***************************************************************************)
(* Quote records and prices (stock_fetcher.py)                             *)
(*                                                                         *)
(* A quote record maps each field of interest to what the provider's dict  *)
(* holds for it: no such key, None, a value float() rejects, or a number.  *)
(* An amount is an integer count of half units and a quote holds whole     *)
(* units, so the mean of two quoted amounts is exact.                      *)
(***************************************************************************)
Fields == { "currentPrice", "regularMarketPrice", "previousClose", "open",
            "bid", "ask" }

Missing == [kind |-> "missing", val |-> 0]   \* field not in info
None == [kind |-> "none", val |-> 0]         \* info[field] is None
Bad == [kind |-> "bad", val |-> 0]           \* float(info[field]) raises
Num(v) == [kind |-> "num", val |-> v]        \* float(info[field]) = v

\* Optional[float]
Absent == [some |-> FALSE, val |-> 0]
Some(v) == [some |-> TRUE, val |-> v]

\* price_fields with previousClose tried before regularMarketPrice
price_fields_reordered ==
    << "currentPrice", "previousClose", "regularMarketPrice", "open" >>

price_fields ==
    << "currentPrice", "regularMarketPrice", "previousClose", "open" >>

\* the loop over price_fields accepting a price of zero
RECURSIVE direct_price_nonneg(_, _)
direct_price_nonneg(info, i) ==
    IF i > Len(price_fields) THEN Absent
    ELSE LET v == info[price_fields[i]]
         IN  IF v.kind = "num" /\ v.val >= 0 THEN Some(v.val)
             ELSE direct_price_nonneg(info, i + 1)

\* for field in price_fields: ... from the i-th field on
RECURSIVE direct_price(_, _)
direct_price(info, i) ==
    IF i > Len(price_fields) THEN Absent
    ELSE LET v == info[price_fields[i]]
         IN  IF v.kind # "missing" /\ v.kind # "none"
             THEN IF v.kind = "num"
                  THEN IF v.val > 0 THEN Some(v.val)
                       ELSE direct_price(info, i + 1)
                  ELSE direct_price(info, i + 1)
             ELSE direct_price(info, i + 1)

\* the bid/ask fallback settling for the one side that is quoted
bid_ask_average_partial(info) ==
    LET bid == IF info["bid"].kind = "num" THEN info["bid"].val ELSE 0
        ask == IF info["ask"].kind = "num" THEN info["ask"].val ELSE 0
    IN  IF bid > 0 /\ ask > 0 THEN Some((bid + ask) \div 2)
        ELSE IF bid > 0 THEN Some(bid)
        ELSE IF ask > 0 THEN Some(ask)
        ELSE Absent

\* the bid/ask fallback
bid_ask_average(info) ==
    IF info["bid"].kind # "missing" /\ info["ask"].kind # "missing"
    THEN IF info["bid"].kind = "bad" \/ info["ask"].kind = "bad"
         THEN Absent
         ELSE LET bid == IF info["bid"].kind # "none" THEN info["bid"].val ELSE 0
                  ask == IF info["ask"].kind # "none" THEN info["ask"].val ELSE 0
              IN  IF bid > 0 /\ ask > 0 THEN Some((bid + ask) \div 2)
                  ELSE Absent
    ELSE Absent

extract_price_from_info(info) ==
    LET direct == direct_price(info, 1)
    IN  IF direct.some THEN direct ELSE bid_ask_average(info)

(***************************************************************************)
(* Ticker strings: a str is the sequence of its characters.                *)
(***************************************************************************)
\* str.strip(): leading and trailing whitespace removed
RECURSIVE LStrip(_)
LStrip(str) ==
    IF str = << >> THEN str
    ELSE IF Head(str) = " " THEN LStrip(Tail(str)) ELSE str

RECURSIVE RStrip(_)
RStrip(str) ==
    IF str = << >> THEN str
    ELSE IF str[Len(str)] = " " THEN RStrip(SubSeq(str, 1, Len(str) - 1)) ELSE str

Strip(str) == RStrip(LStrip(str))

\* str.upper()
UpperChar(c) == IF c = "a" THEN "A" ELSE IF c = "b" THEN "B" ELSE c
Upper(str) == [i \in 1..Len(str) |-> UpperChar(str[i])]

\* not ticker or ticker.strip() == ''
is_blank(ticker) == ticker = << >> \/ Strip(ticker) = << >>

\* results[ticker] = value
DictSet(dict, key, value) ==
    { e \in dict : e[1] # key } \cup { << key, value >> }

(***************************************************************************)
(* StockDataApp.perform_update (main.py)                                   *)
(*                                                                         *)
(* c says how the collaborators answer during the cycle: whether the sheet *)
(* has tickers, whether any passes the filter, whether an exception        *)
(* escapes before the price write, whether any price resolves, whether the *)
(* price write, the exchange-rate fetch and the timestamp write succeed.   *)
(* t is the clock when mark_update_completed runs.  The result holds what  *)
(* the cycle returns and did, and self.scheduler.last_update after it.     *)
(***************************************************************************)
CycleResult(reason, success, prices, exchange, timestamp, lu) ==
    [reason |-> reason, success |-> success, prices_written |-> prices,
     exchange_written |-> exchange, timestamp_written |-> timestamp,
     last_update |-> lu]

\* perform_update marking the update completed before it looks at the
\* result of the price write
perform_update_marks_early(c, t) ==
    IF ~c.tickers_found
    THEN CycleResult("no_tickers", FALSE, FALSE, FALSE, FALSE, last_update)
    ELSE IF ~c.valid_found
    THEN CycleResult("no_valid_tickers", FALSE, FALSE, FALSE, FALSE, last_update)
    ELSE IF c.raises
    THEN CycleResult("exception", FALSE, FALSE, FALSE, FALSE, last_update)
    ELSE IF ~c.any_price
    THEN CycleResult("no_prices", FALSE, FALSE, FALSE, FALSE, last_update)
    ELSE IF ~c.price_update_success
    THEN CycleResult("write_failed", FALSE, FALSE, FALSE, FALSE, t)
    ELSE CycleResult("completed", TRUE, TRUE, c.exchange_ok, c.timestamp_ok, t)

\* perform_update returning failure when the timestamp write fails
perform_update_needs_timestamp(c, t) ==
    IF ~c.tickers_found
    THEN CycleResult("no_tickers", FALSE, FALSE, FALSE, FALSE, last_update)
    ELSE IF ~c.valid_found
    THEN CycleResult("no_valid_tickers", FALSE, FALSE, FALSE, FALSE, last_update)
    ELSE IF c.raises
    THEN CycleResult("exception", FALSE, FALSE, FALSE, FALSE, last_update)
    ELSE IF ~c.any_price
    THEN CycleResult("no_prices", FALSE, FALSE, FALSE, FALSE, last_update)
    ELSE IF ~c.price_update_success
    THEN CycleResult("write_failed", FALSE, FALSE, FALSE, FALSE, last_update)
    ELSE IF ~c.timestamp_ok
    THEN CycleResult("timestamp_failed", FALSE, TRUE, c.exchange_ok, FALSE,
                     last_update)
    ELSE CycleResult("completed", TRUE, TRUE, c.exchange_ok, c.timestamp_ok, t)

\* perform_update marking the update completed when no price was fetched
perform_update_marks_no_prices(c, t) ==
    IF ~c.tickers_found
    THEN CycleResult("no_tickers", FALSE, FALSE, FALSE, FALSE, last_update)
    ELSE IF ~c.valid_found
    THEN CycleResult("no_valid_tickers", FALSE, FALSE, FALSE, FALSE, last_update)
    ELSE IF c.raises
    THEN CycleResult("exception", FALSE, FALSE, FALSE, FALSE, last_update)
    ELSE IF ~c.any_price
    THEN CycleResult("no_prices", FALSE, FALSE, FALSE, FALSE, t)
    ELSE IF ~c.price_update_success
    THEN CycleResult("write_failed", FALSE, FALSE, FALSE, FALSE, last_update)
    ELSE CycleResult("completed", TRUE, TRUE, c.exchange_ok, c.timestamp_ok, t)

perform_update(c, t) ==
    IF ~c.tickers_found
    THEN CycleResult("no_tickers", FALSE, FALSE, FALSE, FALSE, last_update)
    ELSE IF ~c.valid_found
    THEN CycleResult("no_valid_tickers", FALSE, FALSE, FALSE, FALSE, last_update)
    ELSE IF c.raises
    THEN CycleResult("exception", FALSE, FALSE, FALSE, FALSE, last_update)
    ELSE IF ~c.any_price
    THEN CycleResult("no_prices", FALSE, FALSE, FALSE, FALSE, last_update)
    ELSE IF ~c.price_update_success
    THEN CycleResult("write_failed", FALSE, FALSE, FALSE, FALSE, last_update)
    ELSE CycleResult("completed", TRUE, TRUE, c.exchange_ok, c.timestamp_ok, t)

(***************************************************************************)
(* The data of an update cycle: the sheet's ticker row, the filter, the    *)
(* prices, and the cells the writer updates (sheets_client.py, main.py).   *)
(***************************************************************************)
\* [ticker.strip() for ticker in tickers if ticker.strip()]
RECURSIVE cleaned_tickers(_)
cleaned_tickers(row_values) ==
    IF row_values = << >> THEN << >>
    ELSE LET ticker == Head(row_values)
         IN  (IF Strip(ticker) # << >> THEN << Strip(ticker) >> ELSE << >>)
                 \o cleaned_tickers(Tail(row_values))

\* SheetsClient.get_tickers: the cleaned row, or [] when the read raises
get_tickers(row_values, read_ok) ==
    IF read_ok THEN cleaned_tickers(row_values) ELSE << >>

\* ticker_clean.find("@") == -1
no_at_sign(str) == \A i \in 1..Len(str) : str[i] # "@"

\* _filter_tickers without the test for "@"
RECURSIVE filter_tickers_keeps_at(_)
filter_tickers_keeps_at(tks) ==
    IF tks = << >> THEN << >>
    ELSE LET ticker_clean == Strip(Head(tks))
         IN  (IF ticker_clean # << >> /\ ticker_clean \notin SKIP_TICKERS
              THEN << ticker_clean >> ELSE << >>)
                 \o filter_tickers_keeps_at(Tail(tks))

\* StockDataApp._filter_tickers
RECURSIVE filter_tickers(_)
filter_tickers(tks) ==
    IF tks = << >> THEN << >>
    ELSE LET ticker_clean == Strip(Head(tks))
         IN  (IF /\ ticker_clean # << >>
                 /\ ticker_clean \notin SKIP_TICKERS
                 /\ no_at_sign(ticker_clean)
              THEN << ticker_clean >> ELSE << >>)
                 \o filter_tickers(Tail(tks))

\* get_multiple_prices as a function of what each get_ticker_price call
\* returns: the dict after the first n tickers of tks, quotes[i] being the
\* result of the call for tks[i]
RECURSIVE get_multiple_prices(_, _, _)
get_multiple_prices(tks, quotes, n) ==
    IF n = 0 THEN {}
    ELSE DictSet(get_multiple_prices(tks, quotes, n - 1), tks[n],
                 IF ~is_blank(tks[n]) THEN quotes[n] ELSE Absent)

\* ticker in ticker_prices and ticker_prices[ticker] is not None
has_price(ticker_prices, ticker) ==
    \E e \in ticker_prices : e[1] = ticker /\ e[2].some

\* ticker_prices[ticker]
price_of(ticker_prices, ticker) ==
    (CHOOSE e \in ticker_prices : e[1] = ticker)[2].val

\* chr(65 + remainder) for remainder in 0..25
Letters ==
    << "A", "B", "C", "D", "E", "F", "G", "H", "I", "J", "K", "L", "M", "N", "O",
       "P", "Q", "R", "S", "T", "U", "V", "W", "X", "Y", "Z" >>

\* _get_column_letter dividing col_num itself: divmod(col_num, 26)
RECURSIVE get_column_letter_zero_digit(_)
get_column_letter_zero_digit(col_num) ==
    IF col_num > 0
    THEN get_column_letter_zero_digit(col_num \div 26)
             \o << Letters[(col_num % 26) + 1] >>
    ELSE << >>

\* SheetsClient._get_column_letter: each pass of `while col_num > 0` puts
\* the letter of (col_num - 1) % 26 in front of the string and goes on with
\* (col_num - 1) // 26
RECURSIVE get_column_letter(_)
get_column_letter(col_num) ==
    IF col_num > 0
    THEN get_column_letter((col_num - 1) \div 26)
             \o << Letters[((col_num - 1) % 26) + 1] >>
    ELSE << >>

\* the updates update_prices prepares: one per position of the ticker list
\* it reads whose ticker has a price, at the column of that position; range
\* holds the column letters of the cell address, whose row is the price row
prepared_updates(ticker_prices, tks) ==
    { [col |-> col_index, range |-> get_column_letter(col_index),
       value |-> price_of(ticker_prices, tks[col_index])] :
        col_index \in { i \in 1..Len(tks) : has_price(ticker_prices, tks[i]) } }

cfgVars == << MARKET_OPEN_HOUR, MARKET_CLOSE_HOUR, UPDATE_INTERVAL_MINUTES,
              MAX_RETRIES, SKIP_TICKERS >>
resolverVars == << record, resolved >>

appVars == << running, pc, wake, cycle, cycles, sheet, flow >>

fetchVars == << tickers, idx, results, fpc, symbol, attempt, lookups, failed,
                pauses, last, fret >>

vars == << MARKET_OPEN_HOUR, MARKET_CLOSE_HOUR, UPDATE_INTERVAL_MINUTES,
           MAX_RETRIES, SKIP_TICKERS, now, last_update, ret, record, resolved,
           tickers, idx, results, fpc, symbol, attempt, lookups, failed, pauses,
           last, fret, running, pc, wake, cycle, cycles, sheet, flow >>

(***************************************************************************)
(* Values the variables of the other components hold while one component   *)
(* is exercised alone.                                                     *)
(***************************************************************************)
NoCall == [op |-> "none", at |-> 0, force |-> FALSE, b |-> FALSE, n |-> 0]
NoInfo == [f \in Fields |-> Missing]

ResolverIdle == record = NoInfo /\ resolved = Absent

NoCycle ==
    [reason |-> "none", success |-> FALSE, prices_written |-> FALSE,
     exchange_written |-> FALSE, timestamp_written |-> FALSE]

\* no sheet read and no cycle data yet
NoSheet ==
    [row |-> << >>, read_ok |-> FALSE, raises |-> FALSE, quotes |-> << >>,
     reread_ok |-> FALSE, write_ok |-> FALSE, exchange_ok |-> FALSE,
     timestamp_ok |-> FALSE]
NoFlow ==
    [all_tickers |-> << >>, valid_tickers |-> << >>, fetched |-> FALSE,
     ticker_prices |-> {}, updates |-> {}, written |-> {}]

DataIdle == sheet = NoSheet /\ flow = NoFlow

AppIdle ==
    /\ running = TRUE /\ pc = "idle" /\ wake = 0 /\ cycle = NoCycle /\ cycles = 0
    /\ DataIdle

FetchIdle ==
    /\ tickers = << >> /\ idx = 1 /\ results = {}
    /\ fpc = "idle" /\ symbol = << >> /\ attempt = 0 /\ lookups = 0
    /\ failed = 0 /\ pauses = 0 /\ last = "none" /\ fret = Absent

(***************************************************************************)
(* SchedSpec: the scheduler's decisions at one instant.  Init draws the    *)
(* configuration, the clock and last_update; the actions are the calls.    *)
(***************************************************************************)
\* (MARKET_OPEN_HOUR, MARKET_CLOSE_HOUR) configurations
MarketWindows == { <<9, 16>>, <<6, 23>> }
\* UPDATE_INTERVAL_MINUTES configurations
SchedIntervals == { 7, 10 }
\* clock readings: every hour of day 1, minutes at and around the cadence,
\* the first and last second of the minute, every tick of the second
SchedNows ==
    { MakeTime(1, h, m, s, u) :
        h \in 0..23, m \in {0, 5, 10, 59}, s \in {0, 59}, u \in 0..(SubPerSec - 1) }
\* now - last_update: 0, 5, 7 and 10 minutes, each one tick less and one more
SinceLast ==
    { d \in { Minutes(m) + e : m \in {0, 5, 7, 10}, e \in {-1, 0, 1} } : d >= 0 }

SchedInit ==
    /\ \E w \in MarketWindows :
          MARKET_OPEN_HOUR = w[1] /\ MARKET_CLOSE_HOUR = w[2]
    /\ UPDATE_INTERVAL_MINUTES \in SchedIntervals
    /\ MAX_RETRIES = 1
    /\ SKIP_TICKERS = {}
    /\ now \in SchedNows
    /\ last_update \in {NULL} \cup { now - d : d \in SinceLast }
    /\ ret = NoCall
    /\ ResolverIdle
    /\ FetchIdle
    /\ AppIdle

\* scheduler.should_update(force)
ShouldUpdateCall ==
    /\ \E force \in BOOLEAN :
          ret' = [op |-> "should_update", at |-> now, force |-> force,
                  b |-> should_update(force), n |-> 0]
    /\ UNCHANGED << cfgVars, appVars, now, last_update, resolverVars, fetchVars >>

\* scheduler._calculate_wait_until_market_open(datetime.now())
WaitUntilMarketOpenCall ==
    /\ ret' = [op |-> "calc_open", at |-> now, force |-> FALSE, b |-> FALSE,
               n |-> calculate_wait_until_market_open(now)]
    /\ UNCHANGED << cfgVars, appVars, now, last_update, resolverVars, fetchVars >>

\* scheduler.get_next_update_time()
GetNextUpdateTimeCall ==
    /\ ret' = [op |-> "next_update", at |-> now, force |-> FALSE, b |-> FALSE,
               n |-> get_next_update_time(now)]
    /\ UNCHANGED << cfgVars, appVars, now, last_update, resolverVars, fetchVars >>

SchedNext == ShouldUpdateCall \/ WaitUntilMarketOpenCall \/ GetNextUpdateTimeCall

SchedSpec == SchedInit /\ [][SchedNext]_vars

(***************************************************************************)
(* ConfigSpec: the scheduler constructed and used under configurations     *)
(* that make sense and configurations that do not: a window that closes    *)
(* before or when it opens, a closing hour past 24, an interval of zero or *)
(* less.                                                                   *)
(***************************************************************************)
ConfigWindows == { <<9, 16>>, <<16, 9>>, <<9, 9>>, <<9, 25>> }
ConfigIntervals == { 10, 0, -5 }
ConfigNows ==
    { MakeTime(1, h, 0, 0, u) : h \in {8, 10, 17}, u \in 0..(SubPerSec - 1) }

ConfigInit ==
    /\ \E w \in ConfigWindows :
          MARKET_OPEN_HOUR = w[1] /\ MARKET_CLOSE_HOUR = w[2]
    /\ UPDATE_INTERVAL_MINUTES \in ConfigIntervals
    /\ MAX_RETRIES = 1
    /\ SKIP_TICKERS = {}
    /\ now \in ConfigNows
    /\ last_update = NULL
    /\ ret = NoCall
    /\ ResolverIdle
    /\ FetchIdle
    /\ running = TRUE /\ pc = "new" /\ wake = 0 /\ cycle = NoCycle
    /\ cycles = 0
    /\ DataIdle

\* UpdateScheduler(): __init__ sets last_update and looks at nothing else
Construct ==
    /\ pc = "new"
    /\ pc' = "idle"
    /\ last_update' = NULL
    /\ UNCHANGED << cfgVars, now, ret, resolverVars, fetchVars, running, wake,
                    cycle, cycles, sheet, flow >>

\* should_update on the constructed scheduler
ConfigShouldUpdate == pc = "idle" /\ ShouldUpdateCall

\* _calculate_wait_until_market_open on the constructed scheduler
ConfigWaitUntilMarketOpen == pc = "idle" /\ WaitUntilMarketOpenCall

ConfigNext == Construct \/ ConfigShouldUpdate \/ ConfigWaitUntilMarketOpen

ConfigSpec == ConfigInit /\ [][ConfigNext]_vars

(***************************************************************************)
(* MarkSpec: mark_update_completed and should_update on one scheduler      *)
(* while the clock moves on, from ten minutes before an hour to a quarter  *)
(* past it: across the opening hour, inside the window, across the closing *)
(* hour.  ret.b of a mark_update_completed call tells that the call before *)
(* it was one too, made at the same instant, and ret.n holds last_update   *)
(* as the call found it.                                                   *)
(***************************************************************************)
MarkHours == { 8, 12, 15 }
\* how far the clock moves between two calls
MarkSteps == { Minutes(3), Minutes(7) - 1, Minutes(7) }
\* the clock readings followed: hh:50:00 up to hh+1:15:00
MarkWindow(t) ==
    \/ Hour(t) \in MarkHours /\ Minute(t) >= 50
    \/ Hour(t) - 1 \in MarkHours /\ (Minute(t) < 15 \/ t % TicksPerHour = Minutes(15))

MarkInit ==
    /\ MARKET_OPEN_HOUR = 9 /\ MARKET_CLOSE_HOUR = 16
    /\ UPDATE_INTERVAL_MINUTES \in SchedIntervals
    /\ MAX_RETRIES = 1
    /\ SKIP_TICKERS = {}
    /\ now \in { MakeTime(0, h, 50, 0, u) : h \in MarkHours, u \in 0..(SubPerSec - 1) }
    /\ last_update = NULL
    /\ ret = NoCall
    /\ ResolverIdle
    /\ FetchIdle
    /\ AppIdle

\* mark_update_completed forgetting the update when it finds it marked at
\* this very instant
MarkUpdateCompletedCallToggles ==
    /\ last_update' = IF last_update = now THEN NULL ELSE now
    /\ ret' = [op |-> "mark", at |-> now, force |-> FALSE,
               b |-> (ret.op = "mark" /\ ret.at = now), n |-> last_update]
    /\ UNCHANGED << cfgVars, appVars, now, resolverVars, fetchVars >>

\* scheduler.mark_update_completed()
MarkUpdateCompletedCall ==
    /\ last_update' = now
    /\ ret' = [op |-> "mark", at |-> now, force |-> FALSE,
               b |-> (ret.op = "mark" /\ ret.at = now), n |-> last_update]
    /\ UNCHANGED << cfgVars, appVars, now, resolverVars, fetchVars >>

\* time passes between two calls
ClockAdvance ==
    /\ \E d \in MarkSteps : now' = now + d
    /\ MarkWindow(now')
    /\ UNCHANGED << cfgVars, appVars, last_update, ret, resolverVars, fetchVars >>

MarkNext == MarkUpdateCompletedCall \/ ShouldUpdateCall \/ ClockAdvance

MarkSpec == MarkInit /\ [][MarkNext]_vars

(***************************************************************************)
(* ColumnSpec: _get_column_letter for every column number up to MaxColumn, *)
(* which takes in the one-, two- and the first three-letter columns.       *)
(* ret.n holds the column number of the call and ret.s the string it       *)
(* returned.                                                               *)
(***************************************************************************)
MaxColumn == 704

ColumnInit ==
    /\ MARKET_OPEN_HOUR = 9 /\ MARKET_CLOSE_HOUR = 16
    /\ UPDATE_INTERVAL_MINUTES = 10
    /\ MAX_RETRIES = 1
    /\ SKIP_TICKERS = {}
    /\ now = 0
    /\ last_update = NULL
    /\ ret = NoCall
    /\ ResolverIdle
    /\ FetchIdle
    /\ AppIdle

\* sheets_client._get_column_letter(col_num)
GetColumnLetterCall ==
    /\ \E col_num \in 1..MaxColumn :
          ret' = [op |-> "column_letter", at |-> now, force |-> FALSE,
                  b |-> FALSE, n |-> col_num, s |-> get_column_letter(col_num)]
    /\ UNCHANGED << cfgVars, appVars, now, last_update, resolverVars, fetchVars >>

ColumnNext == GetColumnLetterCall

ColumnSpec == ColumnInit /\ [][ColumnNext]_vars

(***************************************************************************)
(* IntervalSpec: the interval wait for every minute of the hour and every  *)
(* cadence of 1..60 minutes.                                               *)
(***************************************************************************)
IntervalHours == { 0, 9, 12, 15, 23 }
IntervalSeconds == { 0, 1, 59 }
MaxIntervalMinutes == 60

IntervalInit ==
    /\ MARKET_OPEN_HOUR = 9 /\ MARKET_CLOSE_HOUR = 16
    /\ UPDATE_INTERVAL_MINUTES \in 1..MaxIntervalMinutes
    /\ MAX_RETRIES = 1
    /\ SKIP_TICKERS = {}
    /\ now \in { MakeTime(0, h, m, s, u) :
                   h \in IntervalHours, m \in 0..59, s \in IntervalSeconds,
                   u \in 0..(SubPerSec - 1) }
    /\ last_update = NULL
    /\ ret = NoCall
    /\ ResolverIdle
    /\ FetchIdle
    /\ AppIdle

\* scheduler._calculate_wait_until_next_interval(datetime.now())
WaitUntilNextIntervalCall ==
    /\ ret' = [op |-> "calc_interval", at |-> now, force |-> FALSE, b |-> FALSE,
               n |-> calculate_wait_until_next_interval(now)]
    /\ UNCHANGED << cfgVars, appVars, now, last_update, resolverVars, fetchVars >>

IntervalNext == WaitUntilNextIntervalCall

IntervalSpec == IntervalInit /\ [][IntervalNext]_vars

(***************************************************************************)
(* ResolverSpec: the resolver applied to every quote record over           *)
(* FieldVals.                                                              *)
(***************************************************************************)
\* what a field of a quote record may hold: amounts of -1, 0, 1 and 2 units
FieldVals == { Missing, None, Bad, Num(-2), Num(0), Num(2), Num(4) }
Records == [Fields -> FieldVals]

ResolverInit ==
    /\ MARKET_OPEN_HOUR = 9 /\ MARKET_CLOSE_HOUR = 16
    /\ UPDATE_INTERVAL_MINUTES = 10
    /\ MAX_RETRIES = 1
    /\ SKIP_TICKERS = {}
    /\ now = 0
    /\ last_update = NULL
    /\ ret = NoCall
    /\ record \in Records
    /\ resolved = Absent
    /\ FetchIdle
    /\ AppIdle

\* fetcher._extract_price_from_info(record)
ExtractPriceCall ==
    /\ ret.op = "none"
    /\ resolved' = extract_price_from_info(record)
    /\ ret' = [NoCall EXCEPT !.op = "resolve"]
    /\ UNCHANGED << cfgVars, appVars, now, last_update, record, fetchVars >>

ResolverNext == ExtractPriceCall

ResolverSpec == ResolverInit /\ [][ResolverNext]_vars

(***************************************************************************)
(* FetchSpec: get_multiple_prices over a list of tickers, as a cycle of    *)
(* the app calls it, and inside it get_ticker_price attempt by attempt.    *)
(* Each lookup raises, returns an empty record, or returns one of          *)
(* FetchRecords.  The code is sequential: every lookup returns or raises   *)
(* and every sleep ends, hence the fairness on the fetcher's steps.  A     *)
(* signal may reach the app's handler at any point, or never.              *)
(***************************************************************************)
MaxTickers == 2
MaxRetries == 3

TickerSet == { << >>, << " " >>, << " ", "a", " " >>, << "A" >>, << "B" >> }
TickerLists == UNION { [1..n -> TickerSet] : n \in 0..MaxTickers }

\* records a lookup may return: currentPrice, bid and ask each unusable in
\* several ways or quoted, and no other field of interest
FetchRecords ==
    { [f \in Fields |->
          CASE f = "currentPrice" -> c
            [] f = "bid" -> b
            [] f = "ask" -> a
            [] OTHER -> Missing] :
        c \in { Missing, None, Bad, Num(-2), Num(0), Num(4) },
        b \in { Missing, Bad, Num(0), Num(2) },
        a \in { None, Num(-2), Num(4) } }
LookupOutcomes == { "raise", "empty", "record" }

FetchInit ==
    /\ MARKET_OPEN_HOUR = 9 /\ MARKET_CLOSE_HOUR = 16
    /\ UPDATE_INTERVAL_MINUTES = 10
    /\ MAX_RETRIES \in 1..MaxRetries
    /\ SKIP_TICKERS = {}
    /\ now = 0
    /\ last_update = NULL
    /\ ret = NoCall
    /\ ResolverIdle
    /\ tickers \in TickerLists
    /\ idx = 1 /\ results = {}
    /\ fpc = "next" /\ symbol = << >> /\ attempt = 0 /\ lookups = 0
    /\ failed = 0 /\ pauses = 0 /\ last = "none" /\ fret = Absent
    /\ running = TRUE /\ pc = "cycle" /\ wake = 0 /\ cycle = NoCycle
    /\ cycles = 0
    /\ DataIdle

\* get_ticker_price guarding against the empty string only: `if not ticker`
get_ticker_price_begin_empty_only(ticker) ==
    /\ attempt' = 0 /\ lookups' = 0 /\ failed' = 0 /\ pauses' = 0
    /\ last' = "none" /\ fret' = Absent
    /\ IF ticker = << >>
       THEN fpc' = "returned" /\ symbol' = ticker
       ELSE /\ symbol' = Upper(Strip(ticker))
            /\ fpc' = IF MAX_RETRIES > 0 THEN "attempt" ELSE "returned"

\* get_ticker_price upper-casing the ticker without trimming it
get_ticker_price_begin_no_strip(ticker) ==
    /\ attempt' = 0 /\ lookups' = 0 /\ failed' = 0 /\ pauses' = 0
    /\ last' = "none" /\ fret' = Absent
    /\ IF is_blank(ticker)
       THEN fpc' = "returned" /\ symbol' = ticker
       ELSE /\ symbol' = Upper(ticker)
            /\ fpc' = IF MAX_RETRIES > 0 THEN "attempt" ELSE "returned"

\* get_ticker_price(ticker) up to its loop: a blank ticker returns None at
\* once, any other is trimmed and upper-cased and enters
\* `for attempt in range(MAX_RETRIES)`, which an empty range leaves at once
get_ticker_price_begin(ticker) ==
    /\ attempt' = 0 /\ lookups' = 0 /\ failed' = 0 /\ pauses' = 0
    /\ last' = "none" /\ fret' = Absent
    /\ IF is_blank(ticker)
       THEN fpc' = "returned" /\ symbol' = ticker
       ELSE /\ symbol' = Upper(Strip(ticker))
            /\ fpc' = IF MAX_RETRIES > 0 THEN "attempt" ELSE "returned"

\* get_multiple_prices, one pass of `for ticker in tickers`: a blank ticker
\* is stored as None, any other starts get_ticker_price
NextTicker ==
    /\ fpc = "next" /\ idx <= Len(tickers)
    /\ IF ~is_blank(tickers[idx])
       THEN /\ get_ticker_price_begin(tickers[idx])
            /\ UNCHANGED << results, idx >>
       ELSE /\ results' = DictSet(results, tickers[idx], Absent)
            /\ idx' = idx + 1
            /\ UNCHANGED << fpc, symbol, attempt, lookups, failed, pauses, last,
                            fret >>
    /\ UNCHANGED << cfgVars, appVars, now, last_update, ret, resolverVars, tickers >>

\* AfterFailure with one pass too many: range(MAX_RETRIES + 1)
AfterFailureOneMore(sleeps) ==
    IF attempt < MAX_RETRIES
    THEN /\ fpc' = IF sleeps THEN "pause" ELSE "attempt"
         /\ attempt' = IF sleeps THEN attempt ELSE attempt + 1
         /\ fret' = fret
    ELSE /\ fpc' = "returned"
         /\ attempt' = attempt
         /\ fret' = Absent

\* where a failed attempt leaves get_ticker_price: asleep before the next
\* attempt, or out of the loop with None
AfterFailure(sleeps) ==
    IF attempt < MAX_RETRIES - 1
    THEN /\ fpc' = IF sleeps THEN "pause" ELSE "attempt"
         /\ attempt' = IF sleeps THEN attempt ELSE attempt + 1
         /\ fret' = fret
    ELSE /\ fpc' = "returned"
         /\ attempt' = attempt
         /\ fret' = Absent

\* Attempt without the try: an exception of the lookup leaves the call
AttemptUncaught ==
    /\ fpc = "attempt"
    /\ lookups' = lookups + 1
    /\ \E o \in LookupOutcomes :
          \/ /\ o = "raise"
             /\ last' = "raise" /\ failed' = failed + 1
             /\ UNCHANGED resolved
             /\ fpc' = "raised" /\ attempt' = attempt /\ fret' = fret
          \/ /\ o = "empty"
             /\ last' = "empty" /\ failed' = failed + 1
             /\ UNCHANGED resolved
             /\ AfterFailure(FALSE)
          \/ /\ o = "record"
             /\ \E info \in FetchRecords :
                   LET p == extract_price_from_info(info)
                   IN  /\ resolved' = p
                       /\ IF p.some
                          THEN /\ last' = "ok" /\ failed' = failed
                               /\ fret' = p /\ fpc' = "returned"
                               /\ attempt' = attempt
                          ELSE /\ last' = "noprice" /\ failed' = failed + 1
                               /\ AfterFailure(TRUE)
    /\ UNCHANGED << cfgVars, appVars, now, last_update, ret, record, tickers, idx,
                    results, symbol, pauses >>

\* get_ticker_price, one pass of `for attempt in range(MAX_RETRIES)` up to
\* the sleep: the lookup, the resolver, and what the outcome leads to
Attempt ==
    /\ fpc = "attempt"
    /\ lookups' = lookups + 1
    /\ \E o \in LookupOutcomes :
          \/ /\ o = "raise"
             /\ last' = "raise" /\ failed' = failed + 1
             /\ UNCHANGED resolved
             /\ AfterFailure(TRUE)
          \/ /\ o = "empty"
             /\ last' = "empty" /\ failed' = failed + 1
             /\ UNCHANGED resolved
             /\ AfterFailure(FALSE)
          \/ /\ o = "record"
             /\ \E info \in FetchRecords :
                   LET p == extract_price_from_info(info)
                   IN  /\ resolved' = p
                       /\ IF p.some
                          THEN /\ last' = "ok" /\ failed' = failed
                               /\ fret' = p /\ fpc' = "returned"
                               /\ attempt' = attempt
                          ELSE /\ last' = "noprice" /\ failed' = failed + 1
                               /\ AfterFailure(TRUE)
    /\ UNCHANGED << cfgVars, appVars, now, last_update, ret, record, tickers, idx,
                    results, symbol, pauses >>

\* time.sleep(RETRY_DELAY_SECONDS), then the next pass of the loop
Pause ==
    /\ fpc = "pause"
    /\ pauses' = pauses + 1
    /\ attempt' = attempt + 1
    /\ fpc' = "attempt"
    /\ UNCHANGED << cfgVars, appVars, now, last_update, ret, resolverVars, tickers, idx,
                    results, symbol, lookups, failed, last, fret >>

\* StoreResult giving up on the list at the first ticker without a price
StoreResultAbortOnFailure ==
    /\ fpc = "returned"
    /\ results' = DictSet(results, tickers[idx], fret)
    /\ idx' = idx + 1
    /\ fpc' = IF fret.some THEN "next" ELSE "done"
    /\ UNCHANGED << cfgVars, appVars, now, last_update, ret, resolverVars, tickers,
                    symbol, attempt, lookups, failed, pauses, last, fret >>

\* results[ticker] = self.get_ticker_price(ticker)
StoreResult ==
    /\ fpc = "returned"
    /\ results' = DictSet(results, tickers[idx], fret)
    /\ idx' = idx + 1
    /\ fpc' = "next"
    /\ UNCHANGED << cfgVars, appVars, now, last_update, ret, resolverVars, tickers,
                    symbol, attempt, lookups, failed, pauses, last, fret >>

\* return results
ReturnResults ==
    /\ fpc = "next" /\ idx > Len(tickers)
    /\ fpc' = "done"
    /\ UNCHANGED << cfgVars, appVars, now, last_update, ret, resolverVars, tickers, idx,
                    results, symbol, attempt, lookups, failed, pauses, last,
                    fret >>

\* _signal_handler, on SIGINT or SIGTERM at any point of run()
SignalHandler ==
    /\ pc \notin { "start", "done" }
    /\ running' = FALSE
    /\ UNCHANGED << cfgVars, now, last_update, ret, resolverVars, fetchVars,
                    pc, wake, cycle, cycles, sheet, flow >>

FetchNext == NextTicker \/ Attempt \/ Pause \/ StoreResult \/ ReturnResults

FetchSpec == FetchInit /\ [][FetchNext \/ SignalHandler]_vars /\ WF_vars(FetchNext)

(***************************************************************************)
(* TickerSpec: one call of get_ticker_price from outside the fetcher, as   *)
(* test_refactored.py makes it, with any ticker string.                    *)
(***************************************************************************)
DirectTickers ==
    TickerSet \cup { << "a" >>, << "b", " " >>, << " ", " " >>, << "a", "B" >>,
                     << " ", "A", "b" >> }

TickerInit ==
    /\ MARKET_OPEN_HOUR = 9 /\ MARKET_CLOSE_HOUR = 16
    /\ UPDATE_INTERVAL_MINUTES = 10
    /\ MAX_RETRIES \in 1..MaxRetries
    /\ SKIP_TICKERS = {}
    /\ now = 0
    /\ last_update = NULL
    /\ ret = NoCall
    /\ ResolverIdle
    /\ tickers \in [1..1 -> DirectTickers]
    /\ idx = 1 /\ results = {}
    /\ fpc = "call" /\ symbol = << >> /\ attempt = 0 /\ lookups = 0
    /\ failed = 0 /\ pauses = 0 /\ last = "none" /\ fret = Absent
    /\ AppIdle

\* price = fetcher.get_ticker_price(ticker)
GetTickerPriceCall ==
    /\ fpc = "call"
    /\ get_ticker_price_begin(tickers[idx])
    /\ UNCHANGED << cfgVars, appVars, now, last_update, ret, resolverVars, tickers,
                    idx, results >>

TickerNext == GetTickerPriceCall \/ Attempt \/ Pause

TickerSpec == TickerInit /\ [][TickerNext]_vars /\ WF_vars(TickerNext)

(***************************************************************************)
(* CycleSpec: one update cycle, as run_once runs it, over every ticker row *)
(* of up to MaxRow cells.  sheet holds the row worksheet.row_values        *)
(* returns and how the collaborators answer: whether the two reads of the  *)
(* row succeed, whether an exception escapes before the fetch, what the    *)
(* call of get_ticker_price for the i-th ticker handed to the fetcher      *)
(* returns (FetchSpec has the call itself), and whether the batch write,   *)
(* the exchange-rate fetch and the timestamp write succeed.                *)
(***************************************************************************)
MaxRow == 3

\* cells of the ticker row: empty, a space, "A", " A", "B", "B@"
Cells == { << >>, << " " >>, << "A" >>, << " ", "A" >>, << "B" >>, << "B", "@" >> }
Rows == UNION { [1..n -> Cells] : n \in 0..MaxRow }
SkipSets == { {}, { << "B" >> } }
\* what the i-th call of get_ticker_price returns: None, or a price that
\* tells the calls apart
Quotes == { q \in [1..MaxRow -> [some : BOOLEAN, val : 0..(2 * MaxRow)]] :
              \A i \in 1..MaxRow : q[i].val = IF q[i].some THEN 2 * i ELSE 0 }

\* an answer the cycle does not get to ask for is FALSE (None for a quote)
Sheets ==
    { sh \in [row : Rows, read_ok : BOOLEAN, raises : BOOLEAN, quotes : Quotes,
              reread_ok : BOOLEAN, write_ok : BOOLEAN, exchange_ok : BOOLEAN,
              timestamp_ok : BOOLEAN] :
        LET valid == filter_tickers(get_tickers(sh.row, sh.read_ok))
        IN  /\ \A i \in 1..MaxRow : i > Len(valid) => ~sh.quotes[i].some
            /\ sh.raises => valid # << >>
            /\ sh.reread_ok =>
                  (~sh.raises /\ \E i \in 1..Len(valid) : sh.quotes[i].some)
            /\ sh.write_ok => sh.reread_ok
            /\ sh.exchange_ok => sh.write_ok
            /\ sh.timestamp_ok => sh.write_ok }

CycleInit ==
    /\ MARKET_OPEN_HOUR = 9 /\ MARKET_CLOSE_HOUR = 16
    /\ UPDATE_INTERVAL_MINUTES = 10
    /\ MAX_RETRIES = 1
    /\ SKIP_TICKERS \in SkipSets
    /\ now = MakeTime(0, 10, 0, 0, 0)
    /\ last_update = NULL
    /\ ret = NoCall
    /\ ResolverIdle
    /\ FetchIdle
    /\ running = TRUE /\ pc = "idle" /\ wake = 0 /\ cycle = NoCycle
    /\ cycles = 0
    /\ sheet \in Sheets
    /\ flow = NoFlow

\* app.run_once(): perform_update from the read of the ticker row to
\* mark_update_completed
RunOnce ==
    /\ pc = "idle" /\ cycles = 0
    /\ cycles' = 1
    /\ LET all_tickers == get_tickers(sheet.row, sheet.read_ok)
           valid_tickers == filter_tickers(all_tickers)
           fetched == all_tickers # << >> /\ valid_tickers # << >> /\ ~sheet.raises
           ticker_prices ==
               IF fetched
               THEN get_multiple_prices(valid_tickers, sheet.quotes,
                                        Len(valid_tickers))
               ELSE {}
           successful_prices == { e \in ticker_prices : e[2].some }
           updates ==
               IF successful_prices # {}
               THEN prepared_updates(ticker_prices,
                                     get_tickers(sheet.row, sheet.reread_ok))
               ELSE {}
           c == [tickers_found |-> all_tickers # << >>,
                 valid_found |-> valid_tickers # << >>,
                 raises |-> sheet.raises,
                 any_price |-> successful_prices # {},
                 price_update_success |-> updates # {} /\ sheet.write_ok,
                 exchange_ok |-> sheet.exchange_ok,
                 timestamp_ok |-> sheet.timestamp_ok]
           r == perform_update(c, now)
       IN  /\ last_update' = r.last_update
           /\ cycle' = [reason |-> r.reason, success |-> r.success,
                        prices_written |-> r.prices_written,
                        exchange_written |-> r.exchange_written,
                        timestamp_written |-> r.timestamp_written]
           /\ flow' = [all_tickers |-> all_tickers,
                       valid_tickers |-> valid_tickers,
                       fetched |-> fetched,
                       ticker_prices |-> ticker_prices,
                       updates |-> updates,
                       written |-> IF sheet.write_ok THEN updates ELSE {}]
    /\ UNCHANGED << cfgVars, now, ret, resolverVars, fetchVars, running, pc,
                    wake, sheet >>

CycleNext == RunOnce

CycleSpec == CycleInit /\ [][CycleNext]_vars

(***************************************************************************)
(* Spec: StockDataApp.run, the continuous main loop, with the signal       *)
(* handler.  The clock moves during an update cycle and during the         *)
(* scheduler's sleep, and by at most a tick in a pass that does not sleep; *)
(* time.sleep returns at the requested time or one tick later.  The model  *)
(* follows the process from its start on day 0 through its first MaxCycles *)
(* cycles.                                                                 *)
(***************************************************************************)
MaxCycles == 3

\* when the process starts
StartTimes ==
    { MakeTime(0, h, m, s, u) :
        h \in {8, 9, 15, 16}, m \in {0, 7, 59}, s \in {0, 59},
        u \in 0..(SubPerSec - 1) }
\* how long an update cycle takes: five seconds, eleven minutes
CycleDurations == { 5 * SubPerSec, Minutes(11) }
\* ticks by which time.sleep overshoots
Oversleep == { 0, 1 }
\* how the collaborators answer during a cycle; an answer the cycle does not
\* get to ask for is FALSE
CycleInputs ==
    { c \in [tickers_found : BOOLEAN, valid_found : BOOLEAN, raises : BOOLEAN,
             any_price : BOOLEAN, price_update_success : BOOLEAN,
             exchange_ok : BOOLEAN, timestamp_ok : BOOLEAN] :
        /\ c.valid_found => c.tickers_found
        /\ c.raises => c.valid_found
        /\ c.any_price => (c.valid_found /\ ~c.raises)
        /\ c.price_update_success => c.any_price
        /\ c.exchange_ok => c.price_update_success
        /\ c.timestamp_ok => c.price_update_success }

Init ==
    /\ MARKET_OPEN_HOUR = 9 /\ MARKET_CLOSE_HOUR = 16
    /\ UPDATE_INTERVAL_MINUTES \in SchedIntervals
    /\ MAX_RETRIES = 1
    /\ SKIP_TICKERS = {}
    /\ now \in StartTimes
    /\ last_update = NULL
    /\ ret = NoCall
    /\ ResolverIdle
    /\ FetchIdle
    /\ running = TRUE /\ pc = "start" /\ wake = 0 /\ cycle = NoCycle
    /\ cycles = 0
    /\ DataIdle

\* run() up to the loop: get_sheet_info, then scheduler.get_market_status,
\* which reads the clock and last_update and calls get_next_update_time
Startup ==
    /\ pc = "start"
    /\ pc' = "loop"
    /\ UNCHANGED << cfgVars, now, last_update, ret, resolverVars, fetchVars,
                    running, wake, cycle, cycles, sheet, flow >>

\* `while self.running:` and `if self.scheduler.should_update():`; the
\* process is followed no further when a cycle past MaxCycles is due
LoopCheck ==
    /\ pc = "loop"
    /\ (running /\ should_update(FALSE)) => cycles < MaxCycles
    /\ pc' = IF ~running THEN "done"
             ELSE IF should_update(FALSE) THEN "cycle"
             ELSE "check_running"
    /\ UNCHANGED << cfgVars, now, last_update, ret, resolverVars, fetchVars,
                    running, wake, cycle, cycles, sheet, flow >>

\* PerformUpdate with run() giving up after a cycle that failed
PerformUpdateStopsOnFailure ==
    /\ pc = "cycle" /\ cycles < MaxCycles
    /\ cycles' = cycles + 1
    /\ \E c \in CycleInputs, d \in CycleDurations :
          LET r == perform_update(c, now + d)
          IN  /\ now' = now + d
              /\ last_update' = r.last_update
              /\ cycle' = [reason |-> r.reason, success |-> r.success,
                           prices_written |-> r.prices_written,
                           exchange_written |-> r.exchange_written,
                           timestamp_written |-> r.timestamp_written]
    /\ pc' = IF cycle'.success THEN "check_running" ELSE "done"
    /\ UNCHANGED << cfgVars, ret, resolverVars, fetchVars, running, wake,
                    sheet, flow >>

\* success = self.perform_update()
PerformUpdate ==
    /\ pc = "cycle" /\ cycles < MaxCycles
    /\ cycles' = cycles + 1
    /\ \E c \in CycleInputs, d \in CycleDurations :
          LET r == perform_update(c, now + d)
          IN  /\ now' = now + d
              /\ last_update' = r.last_update
              /\ cycle' = [reason |-> r.reason, success |-> r.success,
                           prices_written |-> r.prices_written,
                           exchange_written |-> r.exchange_written,
                           timestamp_written |-> r.timestamp_written]
    /\ pc' = "check_running"
    /\ UNCHANGED << cfgVars, ret, resolverVars, fetchVars, running, wake,
                    sheet, flow >>

\* CheckRunning without `if self.running:`, the wait entered in any case
CheckRunningAlwaysWaits ==
    /\ pc = "check_running"
    /\ IF wait_seconds_at(now) > 0
       THEN /\ pc' = "sleeping"
            /\ wake' = now + wait_seconds_at(now) * SubPerSec
            /\ now' = now
       ELSE /\ pc' = "loop"
            /\ wake' = wake
            /\ now' \in { now, now + 1 }
    /\ UNCHANGED << cfgVars, last_update, ret, resolverVars, fetchVars,
                    running, cycle, cycles, sheet, flow >>

\* `if self.running: self.scheduler.wait_until_next_update()` up to the
\* time.sleep, which is skipped when wait_seconds is 0: the pass through the
\* loop then takes no tick or one
CheckRunning ==
    /\ pc = "check_running"
    /\ IF running /\ wait_seconds_at(now) > 0
       THEN /\ pc' = "sleeping"
            /\ wake' = now + wait_seconds_at(now) * SubPerSec
            /\ now' = now
       ELSE /\ pc' = "loop"
            /\ wake' = wake
            /\ IF running THEN now' \in { now, now + 1 } ELSE now' = now
    /\ UNCHANGED << cfgVars, last_update, ret, resolverVars, fetchVars,
                    running, cycle, cycles, sheet, flow >>

\* time.sleep(wait_seconds) returns
Wake ==
    /\ pc = "sleeping"
    /\ \E over \in Oversleep : now' = wake + over
    /\ wake' = 0
    /\ pc' = "loop"
    /\ UNCHANGED << cfgVars, last_update, ret, resolverVars, fetchVars,
                    running, cycle, cycles, sheet, flow >>

Next ==
    \/ Startup
    \/ LoopCheck
    \/ PerformUpdate
    \/ CheckRunning
    \/ Wake
    \/ SignalHandler

Spec == Init /\ [][Next]_vars

\* run() is sequential code: the loop test, the cycle and the wait each
\* return, and every time.sleep ends.  The signal may never come.
LiveSpec ==
    /\ Init /\ [][Next]_vars
    /\ WF_vars(Startup) /\ WF_vars(LoopCheck) /\ WF_vars(PerformUpdate)
    /\ WF_vars(CheckRunning) /\ WF_vars(Wake)

(***************************************************************************)
(* Claims about the scheduler's decisions (SchedSpec, IntervalSpec)        *)
(***************************************************************************)
InMarketHours(t) == Hour(t) >= MARKET_OPEN_HOUR /\ Hour(t) < MARKET_CLOSE_HOUR

\* C1: should_update returns true when force is set; otherwise false when
\* now.hour < open_hour or now.hour >= close_hour, whatever last_update is (so
\* at close_hour:00 and at open_hour-1:59); otherwise true when last_update is
\* null; otherwise true exactly when now - last_update >= interval_minutes.
C1_ShouldUpdateContract ==
    ret.op = "should_update" =>
        /\ ret.force => ret.b
        /\ (~ret.force /\ ~InMarketHours(ret.at)) => ~ret.b
        /\ (~ret.force /\ InMarketHours(ret.at) /\ last_update = NULL) => ret.b
        /\ (~ret.force /\ InMarketHours(ret.at) /\ last_update # NULL) =>
              (ret.b <=> (ret.at - last_update) >= UPDATE_INTERVAL_MINUTES * 60 * SubPerSec)
        /\ (~ret.force /\ Hour(ret.at) = MARKET_CLOSE_HOUR) => ~ret.b
        /\ (~ret.force /\ Hour(ret.at) = MARKET_OPEN_HOUR - 1) => ~ret.b

\* C1 witness: an unforced check inside market hours exactly one interval of
\* 10 minutes after the last update, which answers true.
C1_Witness ==
    /\ ret.op = "should_update" /\ ~ret.force /\ ret.b
    /\ InMarketHours(ret.at)
    /\ UPDATE_INTERVAL_MINUTES = 10
    /\ last_update # NULL
    /\ ret.at - last_update = 10 * 60 * SubPerSec

\* C9: _calculate_wait_until_market_open returns a value >= 0, the whole
\* seconds from now to today at open_hour:00:00 when now.hour < open_hour and
\* to tomorrow at open_hour:00:00 otherwise, and the clock that many seconds
\* after now reads hour open_hour.
C9_WaitUntilMarketOpen ==
    ret.op = "calc_open" =>
        LET today == ret.at - (ret.at % TicksPerDay)
            target == IF Hour(ret.at) < MARKET_OPEN_HOUR
                      THEN today + MARKET_OPEN_HOUR * TicksPerHour
                      ELSE today + TicksPerDay + MARKET_OPEN_HOUR * TicksPerHour
        IN  /\ ret.n >= 0
            /\ ret.n = (target - ret.at) \div SubPerSec
            /\ Hour(ret.at + ret.n * SubPerSec) = MARKET_OPEN_HOUR

\* C7: inside market hours the interval wait is never zero: on an interval
\* boundary and less than a second before one,
\* _calculate_wait_until_next_interval returns a value > 0.
C7_IntervalWaitPositive ==
    (ret.op = "calc_interval" /\ InMarketHours(ret.at)) => ret.n > 0

\* C8: _calculate_wait_until_next_interval returns the whole seconds from now
\* to hh:m:00 with m = (now.minute div interval + 1) * interval, the top of
\* the next hour when m >= 60; 09:07:00 gives 180 and 09:50:00 gives 600 for
\* an interval of 10.
C8_IntervalWaitValue ==
    ret.op = "calc_interval" =>
        LET hourStart == ret.at - (ret.at % TicksPerHour)
            m == (Minute(ret.at) \div UPDATE_INTERVAL_MINUTES + 1)
                     * UPDATE_INTERVAL_MINUTES
            target == IF m >= 60 THEN hourStart + TicksPerHour
                      ELSE hourStart + m * 60 * SubPerSec
        IN  /\ ret.n = (target - ret.at) \div SubPerSec
            /\ (UPDATE_INTERVAL_MINUTES = 10 /\ ret.at = MakeTime(0, 9, 7, 0, 0))
                  => ret.n = 180
            /\ (UPDATE_INTERVAL_MINUTES = 10 /\ ret.at = MakeTime(0, 9, 50, 0, 0))
                  => ret.n = 600

\* C8 witness: the wait computed at 09:50:00 with an interval of 10, whose
\* target rolls over to the top of the next hour.
C8_Witness ==
    /\ ret.op = "calc_interval"
    /\ UPDATE_INTERVAL_MINUTES = 10
    /\ ret.at = MakeTime(0, 9, 50, 0, 0)
    /\ ret.n = 600

ValidConfig ==
    /\ 0 <= MARKET_OPEN_HOUR /\ MARKET_OPEN_HOUR < MARKET_CLOSE_HOUR
    /\ MARKET_CLOSE_HOUR <= 24
    /\ UPDATE_INTERVAL_MINUTES > 0

\* C20: a configuration with open_hour >= close_hour, an hour outside 0..24
\* or a non-positive interval is rejected when the scheduler is constructed:
\* no scheduler exists under it and no wait time or update decision is
\* computed from it.
C20_InvalidConfigRejected ==
    ~ValidConfig => (pc = "new" /\ ret.op = "none")

(***************************************************************************)
(* Claims about the resolver (ResolverSpec)                                *)
(***************************************************************************)
\* present, non-null, numeric and > 0
Usable(v) == v.kind = "num" /\ v.val > 0
DirectOrder == << "currentPrice", "regularMarketPrice", "previousClose", "open" >>
NoDirectUsable == \A i \in 1..4 : ~Usable(record[DirectOrder[i]])

\* C4: the resolver returns the value of the first field, in the order
\* currentPrice, regularMarketPrice, previousClose, open, that is present,
\* non-null, numeric and > 0, skipping every field that is not; a record with
\* a positive currentPrice resolves to exactly that value.
C4_FirstUsableDirectField ==
    ret.op = "resolve" =>
        /\ \A i \in 1..4 :
              ( /\ Usable(record[DirectOrder[i]])
                /\ \A j \in 1..(i - 1) : ~Usable(record[DirectOrder[j]]) )
              => resolved = [some |-> TRUE, val |-> record[DirectOrder[i]].val]
        /\ Usable(record["currentPrice"])
              => (resolved.some /\ resolved.val = record["currentPrice"].val)

\* C4 witness: currentPrice is zero, regularMarketPrice is not numeric,
\* previousClose is quoted at 2 units and open at 1: the resolver has skipped
\* two fields and returned previousClose.
C4_Witness ==
    /\ ret.op = "resolve"
    /\ record["currentPrice"] = Num(0)
    /\ record["regularMarketPrice"] = Bad
    /\ record["previousClose"] = Num(4)
    /\ record["open"] = Num(2)
    /\ resolved = [some |-> TRUE, val |-> 4]

\* C5: when no direct field is usable, the resolver returns (bid + ask) / 2
\* if and only if bid and ask are both present, non-null, numeric and > 0,
\* and otherwise absent: there is no fallback to the one available side.
C5_BidAskFallback ==
    (ret.op = "resolve" /\ NoDirectUsable) =>
        IF Usable(record["bid"]) /\ Usable(record["ask"])
        THEN resolved.some /\ 2 * resolved.val = record["bid"].val + record["ask"].val
        ELSE ~resolved.some

\* C5 witness: no direct field is usable and only the bid is quoted (the ask
\* is null): the resolver has returned absent.
C5_Witness ==
    /\ ret.op = "resolve" /\ NoDirectUsable
    /\ record["bid"] = Num(4) /\ record["ask"] = None
    /\ ~resolved.some

\* the other case of C5 is reached as well: both sides quoted, the mean
\* returned
C5_MeanReached ==
    /\ ret.op = "resolve" /\ NoDirectUsable
    /\ record["bid"] = Num(2) /\ record["ask"] = Num(4)
    /\ resolved = [some |-> TRUE, val |-> 3]

(***************************************************************************)
(* Claims about the fetcher (FetchSpec)                                    *)
(***************************************************************************)
InCall == fpc \in { "attempt", "pause" }

\* C2: a retry delay follows every failed attempt but the final one, whatever
\* the failure (raise, empty record, no price): a call whose k-th attempt is
\* the first to resolve has paused k-1 times, and a call whose MAX_RETRIES
\* attempts all failed has paused MAX_RETRIES-1 times.
C2_PauseAfterEveryFailedAttempt ==
    fpc = "returned" =>
        pauses = IF fret.some THEN lookups - 1 ELSE MAX_RETRIES - 1

\* what holds of a call of get_ticker_price at every moment: the lookups made
\* so far, and how it returned
C3_Safety ==
    /\ lookups <= MAX_RETRIES
    /\ InCall => (last # "ok" /\ failed = lookups)
    /\ fpc = "returned" =>
          IF fret.some
          THEN last = "ok" /\ fret = resolved /\ lookups = failed + 1
          ELSE last # "ok" /\ failed = MAX_RETRIES /\ lookups = MAX_RETRIES

\* C3: a call of get_ticker_price with a non-blank ticker makes at most
\* MAX_RETRIES lookups, returns the resolved price at the first attempt that
\* resolves with no lookup after it, returns absent only after exactly
\* MAX_RETRIES failed attempts, and always returns.
C3_BoundedAttempts == []C3_Safety /\ (InCall ~> (fpc = "returned"))

\* C3 witness: with MAX_RETRIES = 3 a call has returned absent after three
\* failed lookups.
C3_Witness ==
    /\ fpc = "returned" /\ ~fret.some
    /\ MAX_RETRIES = 3 /\ lookups = 3 /\ failed = 3

\* C6: the price the resolver returns, the price get_ticker_price returns and
\* every value of the mapping get_multiple_prices builds is absent or > 0.
C6_PricesPositive ==
    /\ resolved.some => resolved.val > 0
    /\ fret.some => fret.val > 0
    /\ \A e \in results : e[2].some => e[2].val > 0

\* C6 witness: get_multiple_prices has returned a mapping that holds a
\* resolved price and an absent one, after a lookup whose record had a
\* non-positive currentPrice.
C6_Witness ==
    /\ fpc = "done"
    /\ \E e \in results : e[2].some
    /\ \E e \in results : ~e[2].some /\ ~is_blank(e[1])

\* the distinct strings of the list get_multiple_prices was given
InputTickers == { tickers[i] : i \in 1..Len(tickers) }
ResultKeys == { e[1] : e \in results }

\* what get_multiple_prices may do when it moves on from tickers[idx]: store
\* None for a ticker of spaces, or store what the call for that ticker
\* returned after its own lookups, leaving every other entry as it was
C11_MoveOn ==
    idx' # idx =>
        /\ idx' = idx + 1
        /\ \A e \in results : e[1] # tickers[idx] => e \in results'
        /\ \A e \in results' : e[1] # tickers[idx] => e \in results
        /\ IF \A i \in 1..Len(tickers[idx]) : tickers[idx][i] = " "
           THEN << tickers[idx], Absent >> \in results'
           ELSE /\ fpc = "returned" /\ lookups >= 1
                /\ << tickers[idx], fret >> \in results'
                /\ fret.some => (last = "ok" /\ fret = resolved)
                /\ ~fret.some => (last # "ok" /\ failed = MAX_RETRIES)

\* C11: get_multiple_prices resolves each ticker independently: whatever
\* happened for the tickers before it, every ticker is looked up and gets the
\* price its own lookups resolve to (absent when they all fail); the other
\* entries are left alone; the call never raises and returns a mapping with
\* exactly one entry per distinct input string.
C11_IndependentTickers ==
    /\ [][C11_MoveOn]_vars
    /\ [](fpc # "raised")
    /\ [](fpc = "done" =>
            /\ ResultKeys = InputTickers
            /\ Cardinality(results) = Cardinality(InputTickers))
    /\ <>(fpc = "done")

\* C11 witness: every lookup for "A" failed, "B" after it was still looked up
\* and resolved, and the mapping returned holds both.
C11_Witness ==
    /\ fpc = "done" /\ MAX_RETRIES = 3
    /\ tickers = << << "A" >>, << "B" >> >>
    /\ << << "A" >>, Absent >> \in results
    /\ \E e \in results : e[1] = << "B" >> /\ e[2].some
    /\ last = "ok"

\* C12: whatever the lookups do (raise, return an empty record, return a
\* malformed or unresolvable record), a call of get_ticker_price never
\* raises: it returns, with the resolved price or with absent.
C12_FailuresNotSurfaced ==
    /\ [](fpc # "raised")
    /\ [](fpc = "returned" => (fret = Absent \/ (fret.some /\ fret = resolved)))
    /\ ((fpc = "call") ~> (fpc = "returned"))

\* C12 witness: with MAX_RETRIES = 3 the third lookup raised like the two
\* before it failed, and the call has returned absent.
C12_Witness ==
    /\ fpc = "returned" /\ MAX_RETRIES = 3
    /\ last = "raise" /\ failed = 3
    /\ fret = Absent

\* empty or made of whitespace only
OnlySpaces(str) == \A i \in 1..Len(str) : str[i] = " "

\* C13: get_ticker_price called with an empty or whitespace-only ticker
\* returns absent at once: it makes no lookup and sleeps no retry delay.
C13_BlankTickerReturnsAtOnce ==
    /\ [](OnlySpaces(tickers[1]) =>
            /\ lookups = 0 /\ pauses = 0
            /\ fpc \in { "call", "returned" }
            /\ fpc = "returned" => fret = Absent)
    /\ [][(fpc = "call" /\ OnlySpaces(tickers[1])) => fpc' = "returned"]_vars

\* C13 witness: the call with a ticker of two spaces has returned without a
\* lookup.
C13_Witness ==
    /\ fpc = "returned" /\ tickers[1] = << " ", " " >>
    /\ lookups = 0 /\ pauses = 0 /\ fret = Absent

\* str is core with l spaces before it and r spaces after it
Padded(str, core, l, r) ==
    /\ Len(str) = l + Len(core) + r
    /\ \A i \in 1..l : str[i] = " "
    /\ \A i \in 1..Len(core) : str[l + i] = core[i]
    /\ \A i \in 1..r : str[l + Len(core) + i] = " "

\* sym is what is left of str without the whitespace around it, in upper case
Canonical(sym, str) ==
    /\ sym # << >> => (sym[1] # " " /\ sym[Len(sym)] # " ")
    /\ \A i \in 1..Len(sym) : sym[i] = UpperChar(sym[i])
    /\ \E l \in 0..Len(str), r \in 0..Len(str) :
          /\ l + r + Len(sym) = Len(str)
          /\ \A i \in 1..l : str[i] = " "
          /\ \A i \in 1..r : str[l + Len(sym) + i] = " "
          /\ \A i \in 1..Len(sym) : sym[i] = UpperChar(str[l + i])

\* two strings that differ only in the whitespace around them and in case
SameTicker(s1, s2) ==
    \E sym \in { Upper(SubSeq(s1, i, j)) : i \in 1..(Len(s1) + 1), j \in 0..Len(s1) } :
        Canonical(sym, s1) /\ Canonical(sym, s2)

\* C14 as claimed: tickers that differ only in surrounding whitespace and in
\* case get the same symbol for the lookup and the same key in the mapping
\* get_multiple_prices returns.
C14_SameInternalKey ==
    /\ InCall => Canonical(symbol, tickers[idx])
    /\ fpc = "done" =>
          \A e1 \in results, e2 \in results :
              (~OnlySpaces(e1[1]) /\ SameTicker(e1[1], e2[1])) => e1[1] = e2[1]

\* C14 amended: tickers that differ only in surrounding whitespace and in
\* case get the same symbol for the lookup, the ticker trimmed and in upper
\* case; the mapping get_multiple_prices returns is keyed by the input
\* strings as they were given.
C14_SameLookupSymbol ==
    /\ InCall => Canonical(symbol, tickers[idx])
    /\ fpc = "done" => \A i \in 1..Len(tickers) : \E e \in results : e[1] = tickers[i]

\* C14 witness: the lookup for "A" is under way with the symbol "A", after the
\* call for " a " went through its lookups, and the mapping holds " a " as
\* given.
C14_Witness ==
    /\ tickers = << << " ", "a", " " >>, << "A" >> >>
    /\ idx = 2 /\ fpc = "attempt" /\ symbol = << "A" >>
    /\ \E e \in results : e[1] = << " ", "a", " " >>

(***************************************************************************)
(* Claims about the main loop (Spec)                                       *)
(***************************************************************************)
\* C15: a cycle that ends as failed, for whichever reason, does not end the
\* process: perform_update returns into the loop with running as it was, run
\* leaves the loop only when running is false, and while running is true the
\* loop goes on to wait_until_next_update and from there to the next
\* should_update check.
C15_FailedCycleContinues ==
    /\ [][ /\ (pc = "cycle" /\ pc' # pc) =>
                (pc' = "check_running" /\ running' = running)
           /\ (pc = "check_running" /\ running /\ pc' # pc) =>
                /\ pc' = IF wait_seconds_at(now) > 0 THEN "sleeping" ELSE "loop"
                /\ pc' = "sleeping" => wake' = now + wait_seconds_at(now) * SubPerSec
           /\ (pc = "sleeping" /\ pc' # pc) => pc' = "loop"
           /\ (pc # "done" /\ pc' = "done") => ~running ]_vars
    /\ [](pc = "check_running" /\ ~cycle.success => <>(pc = "loop"))

\* C15 witness: after a cycle that failed with an exception the loop, still
\* running, is back at its should_update check.
C15_Witness ==
    /\ pc = "loop" /\ running
    /\ cycles = 1 /\ cycle.reason = "exception" /\ ~cycle.success

(***************************************************************************)
(* Claims about the data of a cycle (CycleSpec)                            *)
(***************************************************************************)
\* the keys of the mapping the fetcher returned, by outcome
ResolvedKeys == { e[1] : e \in { x \in flow.ticker_prices : x[2].some } }
FailedKeys == { e[1] : e \in { x \in flow.ticker_prices : ~x[2].some } }

\* C16: a cycle in which at least one ticker resolves and at least one fails
\* still gets to the sheet writer: an update is prepared for every position
\* of the ticker list that holds a resolved ticker, with that ticker's price,
\* and for no position that holds a failed one; when the price write
\* succeeds the cycle returns success and marks the update completed,
\* whether or not the exchange-rate fetch and the timestamp write succeed,
\* and when it does not the cycle fails and marks nothing.
C16_PartialFailureCompletes ==
    (cycles = 1 /\ flow.fetched /\ ResolvedKeys # {} /\ FailedKeys # {}) =>
        /\ cycle.reason \in { "completed", "write_failed" }
        /\ \A u \in flow.updates :
              /\ u.col \in 1..Len(flow.all_tickers)
              /\ flow.all_tickers[u.col] \notin FailedKeys
              /\ << flow.all_tickers[u.col], Some(u.value) >> \in flow.ticker_prices
        /\ sheet.reread_ok =>
              \A i \in 1..Len(flow.all_tickers) :
                  flow.all_tickers[i] \in ResolvedKeys =>
                      \E u \in flow.updates : u.col = i
        /\ flow.written # {} =>
              /\ flow.written = flow.updates
              /\ cycle.success /\ cycle.prices_written /\ last_update = now
        /\ flow.written = {} => (~cycle.success /\ last_update = NULL)

\* C16 witness: "A" resolved and "B" failed, the price of "A" was written,
\* the exchange-rate fetch and the timestamp write both failed, and the
\* cycle has returned success and marked the update.
C16_Witness ==
    /\ cycles = 1 /\ cycle.success /\ last_update = now
    /\ ResolvedKeys = { << "A" >> } /\ FailedKeys = { << "B" >> }
    /\ flow.written # {}
    /\ ~cycle.exchange_written /\ ~cycle.timestamp_written

\* the string without the whitespace around it
TrimOf(str) ==
    CHOOSE core \in { SubSeq(str, i, j) : i \in 1..(Len(str) + 1), j \in 0..Len(str) } :
        /\ core # << >> => (core[1] # " " /\ core[Len(core)] # " ")
        /\ \E l \in 0..Len(str), r \in 0..Len(str) : Padded(str, core, l, r)

\* the cell holds a ticker the filter lets through
PassesFilter(cell) ==
    /\ TrimOf(cell) # << >>
    /\ TrimOf(cell) \notin SKIP_TICKERS
    /\ \A i \in 1..Len(TrimOf(cell)) : TrimOf(cell)[i] # "@"

\* the positions of the ticker row whose cell passes the filter
PassingCells == { i \in 1..Len(sheet.row) : PassesFilter(sheet.row[i]) }

\* C19: the list a cycle hands to get_multiple_prices holds no ticker that is
\* in skip_tickers, contains "@" or is empty after trimming, and holds every
\* other ticker of the sheet row, trimmed, in the order of the row; the
\* fetcher is not called when no ticker of the row passes.
C19_OnlyFilteredTickersFetched ==
    cycles = 1 =>
        /\ flow.fetched =>
              /\ sheet.read_ok
              /\ \A k \in 1..Len(flow.valid_tickers) :
                    /\ flow.valid_tickers[k] # << >>
                    /\ flow.valid_tickers[k] \notin SKIP_TICKERS
                    /\ \A i \in 1..Len(flow.valid_tickers[k]) :
                          flow.valid_tickers[k][i] # "@"
              /\ Len(flow.valid_tickers) = Cardinality(PassingCells)
              /\ \A i \in PassingCells :
                    flow.valid_tickers[Cardinality({ j \in PassingCells : j <= i })]
                        = TrimOf(sheet.row[i])
              /\ { e[1] : e \in flow.ticker_prices }
                    = { flow.valid_tickers[k] : k \in 1..Len(flow.valid_tickers) }
        /\ ~flow.fetched =>
              (~sheet.read_ok \/ PassingCells = {} \/ sheet.raises)
        /\ ~flow.fetched => flow.ticker_prices = {}

\* C19 witness: of the row "B", " A", "B@" with "B" in skip_tickers only "A"
\* was handed to the fetcher.
C19_Witness ==
    /\ cycles = 1 /\ flow.fetched
    /\ SKIP_TICKERS = { << "B" >> }
    /\ sheet.row = << << "B" >>, << " ", "A" >>, << "B", "@" >> >>
    /\ flow.valid_tickers = << << "A" >> >>

\* C17: running is checked after each suspension point returns, before any
\* further work: when the scheduler's sleep ends with running false the loop
\* ends without another cycle, and when a retry delay of the fetcher ends
\* with running false no further lookup is made.
C17_RunningCheckedAfterSleep ==
    [][ /\ (pc = "sleeping" /\ ~running /\ pc' # pc) => pc' = "loop"
        /\ (pc = "loop" /\ ~running /\ pc' # pc) => pc' = "done"
        /\ (fpc = "pause" /\ ~running /\ fpc' # fpc) => fpc' # "attempt" ]_vars

\* the scheduler's side of C17, which the main loop keeps
C17_LoopChecksRunning ==
    [][ /\ (pc = "sleeping" /\ ~running /\ pc' # pc) => pc' = "loop"
        /\ (pc = "loop" /\ ~running /\ pc' # pc) => pc' = "done" ]_vars

\* C10: last_update is null when the scheduler is created and changes only
\* when mark_update_completed sets it to the current time, which only
\* perform_update does, on the path where the price write succeeded:
\* should_update, wait_until_next_update, get_next_update_time,
\* get_market_status and the signal handler leave it unchanged.
C10_LastUpdateFrame ==
    /\ last_update = NULL
    /\ [][ last_update' # last_update =>
              /\ pc = "cycle" /\ cycles' = cycles + 1
              /\ cycle'.success /\ cycle'.prices_written
              /\ last_update' = now' ]_vars

\* C10 witness: a second cycle has failed at the price write after a first
\* one completed, and last_update still holds the first one's time.
C10_Witness ==
    /\ pc = "check_running"
    /\ cycles = 2
    /\ cycle.reason = "write_failed"
    /\ last_update # NULL /\ last_update < now

(***************************************************************************)
(* Claims about mark_update_completed (MarkSpec)                           *)
(***************************************************************************)
\* C21: mark_update_completed is idempotent: a call made right after another
\* one at the same instant leaves last_update, the scheduler's whole state,
\* as the first call left it, at that instant; and what should_update
\* answers at any later time depends on that state and the clock alone, so
\* it is the same after two calls as after one.
C21_MarkTwiceIsMarkOnce ==
    /\ [][ (ret' # ret /\ ret'.op = "mark") =>
              /\ last_update' = now /\ now' = now
              /\ ret'.b => (ret.op = "mark" /\ ret.at = now
                            /\ last_update' = last_update) ]_vars
    /\ [](ret.op = "mark" => last_update = ret.at)
    /\ []((ret.op = "should_update" /\ ~ret.force) =>
            (ret.b <=> /\ InMarketHours(ret.at)
                       /\ \/ last_update = NULL
                          \/ ret.at - last_update
                                >= UPDATE_INTERVAL_MINUTES * 60 * SubPerSec))

\* C21 witness: inside market hours mark_update_completed has been called a
\* second time at the instant of the first call, which had found the
\* scheduler as the first call left it.
C21_Witness ==
    /\ ret.op = "mark" /\ ret.b /\ ret.at = now
    /\ ret.n = now /\ last_update = now
    /\ InMarketHours(now)

(***************************************************************************)
(* Claims about the column letters (ColumnSpec)                            *)
(***************************************************************************)
\* the position of a letter in the alphabet, 1 for A up to 26 for Z, and 0
\* for anything else
LetterDigit(c) ==
    IF \E k \in 1..26 : Letters[k] = c
    THEN CHOOSE k \in 1..26 : Letters[k] = c
    ELSE 0

\* the number a string of letters writes in bijective base 26
RECURSIVE ColumnNumber(_)
ColumnNumber(str) ==
    IF str = << >> THEN 0
    ELSE 26 * ColumnNumber(SubSeq(str, 1, Len(str) - 1)) + LetterDigit(str[Len(str)])

\* C22: _get_column_letter returns for every column number from 1 on the
\* string of letters A..Z, digits 1..26 with no zero digit, that writes the
\* number in bijective base 26 (1 -> A, 26 -> Z, 27 -> AA, 52 -> AZ,
\* 53 -> BA, 702 -> ZZ, 703 -> AAA), and no other column number gets the
\* same string.
C22_ColumnLetters ==
    ret.op = "column_letter" =>
        /\ ret.s # << >>
        /\ \A i \in 1..Len(ret.s) : LetterDigit(ret.s[i]) \in 1..26
        /\ ColumnNumber(ret.s) = ret.n
        /\ \A other \in 1..MaxColumn :
              other # ret.n => get_column_letter(other) # ret.s
        /\ ret.n = 1 => ret.s = << "A" >>
        /\ ret.n = 26 => ret.s = << "Z" >>
        /\ ret.n = 27 => ret.s = << "A", "A" >>
        /\ ret.n = 52 => ret.s = << "A", "Z" >>
        /\ ret.n = 53 => ret.s = << "B", "A" >>
        /\ ret.n = 702 => ret.s = << "Z", "Z" >>
        /\ ret.n = 703 => ret.s = << "A", "A", "A" >>

\* C22 witness: column 703, the first past ZZ, has come back as AAA.
C22_Witness ==
    /\ ret.op = "column_letter"
    /\ ret.n = 703 /\ ret.s = << "A", "A", "A" >>

(***************************************************************************)
(* Claims about the cadence of the main loop (Spec)                        *)
(***************************************************************************)
\* the loop is at its should_update check, running, inside market hours,
\* after a cycle that succeeded and was marked within the minute of an
\* interval boundary, and the clock is at the interval boundary that follows
\* the mark, less than a second past it
AtBoundaryAfterSuccess ==
    /\ pc = "loop" /\ running
    /\ cycle.success /\ last_update # NULL
    /\ Minute(last_update) % UPDATE_INTERVAL_MINUTES = 0
    /\ InMarketHours(now)
    /\ now >= get_next_update_time(last_update)
    /\ now < get_next_update_time(last_update) + SubPerSec

\* C23: no in-hours interval boundary is skipped after a successful cycle:
\* when the loop wakes at the boundary after a cycle that started at a
\* boundary and was marked some seconds later, still inside market hours and
\* running, should_update is true and a new cycle starts.
C23_NoBoundarySkipped ==
    AtBoundaryAfterSuccess => should_update(FALSE)

(***************************************************************************)
(* Claims about the cells written (CycleSpec)                              *)
(***************************************************************************)
\* C24: each price update_prices writes goes into the column in which its
\* ticker stands in the ticker row, and every column of the row whose ticker
\* has a price gets it, whatever empty cells the row has.
C24_PriceUnderItsTicker ==
    (cycles = 1 /\ flow.written # {}) =>
        /\ \A u \in flow.written :
              LET i == ColumnNumber(u.range)
              IN  /\ i \in 1..Len(sheet.row)
                  /\ << TrimOf(sheet.row[i]), Some(u.value) >> \in flow.ticker_prices
        /\ \A i \in 1..Len(sheet.row) :
              TrimOf(sheet.row[i]) \in ResolvedKeys =>
                  \E u \in flow.written : ColumnNumber(u.range) = i

(***************************************************************************)
(* Claims about when the main loop runs a cycle (Spec, LiveSpec)           *)
(***************************************************************************)
\* the first opening hour after t
NextOpen(t) ==
    LET midnight == t - (t % TicksPerDay)
    IN  IF Hour(t) < MARKET_OPEN_HOUR
        THEN midnight + MARKET_OPEN_HOUR * TicksPerHour
        ELSE midnight + TicksPerDay + MARKET_OPEN_HOUR * TicksPerHour

IntervalTicks == UPDATE_INTERVAL_MINUTES * 60 * SubPerSec

C26_NoRedundantCycle ==
    /\ []((pc = "cycle" /\ last_update # NULL) => now - last_update >= IntervalTicks)
    /\ [][ (cycles' # cycles /\ last_update # NULL) =>
              now - last_update >= IntervalTicks ]_vars
    /\ [][ (pc = "loop" /\ running /\ last_update # NULL /\ pc' # pc
              /\ now - last_update < IntervalTicks) => pc' = "check_running" ]_vars

\* C26 witness: the loop woke inside market hours less than an interval after
\* the mark of its first cycle and has gone past the check without a cycle.
C26_Witness ==
    /\ pc = "check_running" /\ running /\ InMarketHours(now)
    /\ cycles = 1 /\ cycle.success /\ last_update # NULL
    /\ now > last_update /\ now - last_update < IntervalTicks

\* the last cycle failed and the loop, running, is at its should_update check
\* inside market hours
AtCheckAfterFailure ==
    /\ pc = "loop" /\ running
    /\ cycles > 0 /\ ~cycle.success
    /\ InMarketHours(now)

\* C27: a cycle that fails leaves last_update as it was, and at the next
\* should_update check made inside market hours with running true
\* should_update is true and a new cycle starts.
C27_FailedCycleRetried ==
    /\ [][ (pc = "cycle" /\ pc' # pc /\ ~cycle'.success) =>
              last_update' = last_update ]_vars
    /\ [](AtCheckAfterFailure =>
            (last_update = NULL \/ now - last_update >= IntervalTicks))
    /\ [][ (AtCheckAfterFailure /\ pc' # pc) => pc' = "cycle" ]_vars

\* C27 witness: the second cycle failed at the price write after a first one
\* that was marked, and at the wake-up that followed a third cycle has
\* started.
C27_Witness ==
    /\ pc = "cycle" /\ running
    /\ cycles = 2 /\ cycle.reason = "write_failed"
    /\ last_update # NULL /\ now > last_update

\* C28: once the signal handler has set running to false it stays false and
\* run() returns 0: the cycle the loop had decided on or was in finishes and
\* the loop then leaves without calling wait_until_next_update; the wait the
\* loop had decided on or was in ends and the loop then leaves without a
\* cycle; so at most one cycle and at most one wait follow the flag.
C28_BoundedShutdown ==
    /\ [][ ~running =>
              /\ ~running'
              /\ (pc # "cycle" => pc' # "cycle")
              /\ (pc # "sleeping" => pc' # "sleeping")
              /\ (cycles' # cycles => (pc = "cycle" /\ cycles' = cycles + 1))
              /\ ((pc = "cycle" /\ pc' # pc) => pc' = "check_running")
              /\ ((pc = "check_running" /\ pc' # pc) => (pc' = "loop" /\ now' = now))
              /\ ((pc = "sleeping" /\ pc' # pc) => pc' = "loop")
              /\ ((pc = "loop" /\ pc' # pc) => pc' = "done") ]_vars
    /\ (~running ~> (pc = "done"))

\* C28 witness: run() has returned with running false right after a cycle
\* that completed, no time having passed since its mark: the flag was set
\* while the cycle was in progress and no wait followed.
C28_Witness ==
    /\ pc = "done" /\ ~running
    /\ cycles = 1 /\ cycle.success
    /\ last_update = now

=============================================================================
